---- MODULE Spec2Model ----
(***************************************************************************)
(* Review Sentiment Service (src/main.py): POST /reviews and GET /reviews  *)
(* over a SQLite table "reviews", reached through per-request SQLAlchemy   *)
(* sessions that borrow connections from the engine's pool.                *)
(*                                                                         *)
(* A text is a sequence of Unicode code points (a Python str).  The model  *)
(* covers the code points 0..127 and the Cyrillic block 1024..1119.        *)
(***************************************************************************)
EXTENDS Integers, Sequences, FiniteSets, Bags, TLC

\* ---------------------------------------------------------------- bounds

\* Number of POST requests issued in one run of Spec.
MaxReq == 2

\* Number of GET requests in flight at the same time.
MaxGet == 1

\* Number of fragments a request body of SpecText is made of.
MaxFrags == 3

\* ------------------------------------------------------------ configuration

\* src/main.py:26, the default of the MAX_REVIEW_LENGTH setting.
MAX_REVIEW_LENGTH == 1000

\* src/main.py:27: r"\bхорош\w*", r"\bлюблю\w*".  A pattern is its stem; every
\* pattern of the source is \b, the stem, then \w*.
positive_patterns ==
    << <<1093, 1086, 1088, 1086, 1096>>,
       <<1083, 1102, 1073, 1083, 1102>> >>

\* src/main.py:28: r"\bплох\w*", r"\bненавиж\w*".
negative_patterns ==
    << <<1087, 1083, 1086, 1093>>,
       <<1085, 1077, 1085, 1072, 1074, 1080, 1078>> >>

\* -------------------------------------------------------- character classes

\* Whitespace as constr(strip_whitespace=True) of pydantic 2.x sees it (the
\* Unicode property White_Space), on the modelled code points.  The
\* separators 28..31 are not whitespace here; str.strip() of pydantic 1.x
\* would remove them too.
IsSpace(c) == c \in {9, 10, 11, 12, 13, 32}

\* The regex class \w on the modelled code points.
IsWord(c) ==
    \/ c \in 48..57
    \/ c \in 65..90
    \/ c = 95
    \/ c \in 97..122
    \/ c \in 1024..1119

\* An ASCII letter: what may open a tag name after "<" or "</".
IsAsciiLetter(c) == c \in 65..90 \/ c \in 97..122

\* str.lower() on one modelled code point.
LowerChar(c) ==
    IF c \in 65..90 THEN c + 32
    ELSE IF c \in 1040..1071 THEN c + 32
    ELSE IF c \in 1024..1039 THEN c + 80
    ELSE c

\* str.lower(), line 88.
Lower(s) == [i \in 1..Len(s) |-> LowerChar(s[i])]

\* ------------------------------------------------------------- validation

\* constr(strip_whitespace=True): leading and trailing whitespace removed.
Strip(s) ==
    IF \A i \in 1..Len(s) : IsSpace(s[i]) THEN <<>>
    ELSE LET lo == CHOOSE i \in 1..Len(s) :
                       ~IsSpace(s[i]) /\ \A j \in 1..(i - 1) : IsSpace(s[j])
             hi == CHOOSE i \in 1..Len(s) :
                       ~IsSpace(s[i]) /\ \A j \in (i + 1)..Len(s) : IsSpace(s[j])
         IN  SubSeq(s, lo, hi)

\* ReviewPOSTRequest, lines 49-50: the text is stripped, then its length is
\* checked against min_length=1 and max_length=MAX_REVIEW_LENGTH.
ReviewPOSTRequest_mutNoMin(body) ==
    LET t == Strip(body)
    IN  [ok |-> Len(t) <= MAX_REVIEW_LENGTH, text |-> t]

ReviewPOSTRequest(body) ==
    LET t == Strip(body)
    IN  [ok |-> Len(t) >= 1 /\ Len(t) <= MAX_REVIEW_LENGTH, text |-> t]

\* -------------------------------------------------------------- sanitizer

\* Index of the first ">" at or after i, 0 when there is none.
CloseIdx(s, i) ==
    LET gt == {k \in i..Len(s) : s[k] = 62}
    IN  IF gt = {} THEN 0 ELSE CHOOSE k \in gt : \A m \in gt : k <= m

\* s[i] = "<" opens a tag: "<" letter ... ">" or "</" letter ... ">".
TagAt(s, i) ==
    /\ s[i] = 60
    /\ \/ i + 1 <= Len(s) /\ IsAsciiLetter(s[i + 1])
       \/ i + 2 <= Len(s) /\ s[i + 1] = 47 /\ IsAsciiLetter(s[i + 2])
    /\ CloseIdx(s, i) # 0

\* Serialisation of a text character: "&" "<" ">" are escaped.
Escape(c) ==
    IF c = 38 THEN <<38, 97, 109, 112, 59>>
    ELSE IF c = 60 THEN <<38, 108, 116, 59>>
    ELSE IF c = 62 THEN <<38, 103, 116, 59>>
    ELSE <<c>>

\* Index of the first "&", "<" or ">" at or after i, Len(s)+1 when none.
NextSpecial(s, i) ==
    LET sp == {k \in i..Len(s) : s[k] \in {38, 60, 62}}
    IN  IF sp = {} THEN Len(s) + 1 ELSE CHOOSE k \in sp : \A m \in sp : k <= m

RECURSIVE CleanFrom(_, _)
CleanFrom(s, i) ==
    IF i > Len(s) THEN <<>>
    ELSE IF s[i] \in {38, 60, 62}
    THEN IF TagAt(s, i)
         THEN CleanFrom(s, CloseIdx(s, i) + 1)
         ELSE Escape(s[i]) \o CleanFrom(s, i + 1)
    ELSE LET j == NextSpecial(s, i)
         IN  SubSeq(s, i, j - 1) \o CleanFrom(s, j)

\* bleach.clean(text, tags=[], attributes=[], strip=True), line 133: every tag
\* is dropped (its content kept) and the remaining text is escaped.  The
\* modelled inputs hold inline tags only (b, i) and no comments, doctypes or
\* character references.
sanitize_html(s) == CleanFrom(s, 1)

\* -------------------------------------------------------------- classifier

\* re.search(r"\b" + stem + r"\w*", s): the stem occurs at a position that
\* starts a word.  Every stem starts with a word character, so \b holds at i
\* exactly when i is the first position or s[i-1] is not a word character;
\* \w* matches the empty string and never makes the search fail.
re_search(stem, s) ==
    \E i \in 1..Len(s) :
        /\ i + Len(stem) - 1 <= Len(s)
        /\ SubSeq(s, i, i + Len(stem) - 1) = stem
        /\ (i = 1 \/ ~IsWord(s[i - 1]))

\* check_sentiment with the two loops swapped.
check_sentiment_mutNegFirst(text) ==
    LET lower_text == Lower(text)
    IN  IF \E k \in 1..Len(negative_patterns) :
               re_search(negative_patterns[k], lower_text)
        THEN "negative"
        ELSE IF \E k \in 1..Len(positive_patterns) :
                    re_search(positive_patterns[k], lower_text)
        THEN "positive"
        ELSE "neutral"

\* check_sentiment, lines 86-98.
check_sentiment(text) ==
    LET lower_text == Lower(text)
    IN  IF \E k \in 1..Len(positive_patterns) :
               re_search(positive_patterns[k], lower_text)
        THEN "positive"
        ELSE IF \E k \in 1..Len(negative_patterns) :
                    re_search(negative_patterns[k], lower_text)
        THEN "negative"
        ELSE "neutral"

\* ------------------------------------------------------------------ inputs

Repeat(c, n) == [i \in 1..n |-> c]

\* Request bodies {"text": ...} sent to POST /reviews in Spec.
Bodies ==
    { <<60, 98, 62, 60, 47, 98, 62>>,                          \* "<b></b>"
      <<32, 1051, 1102, 1073, 1083, 1102, 32>> }               \* " Люблю "

\* Values of the optional query parameter ?sentiment= in Spec: <<>> when
\* the parameter is absent.
Queries == { <<>>, <<"positive">>, <<"happy">> }

\* The pieces the request bodies of SpecText are concatenated from.
Fragments ==
    { <<32>>,                                                  \* " "
      <<10>>,                                                  \* "\n"
      <<44>>,                                                  \* ","
      <<38>>,                                                  \* "&"
      <<60, 98, 62>>,                                          \* "<b>"
      <<60, 47, 98, 62>>,                                      \* "</b>"
      <<1085, 1077>>,                                          \* "не"
      <<1093, 1086, 1088, 1086, 1096, 1086>>,                  \* "хорошо"
      <<1051, 1102, 1073, 1083, 1102>>,                        \* "Люблю"
      <<1087, 1083, 1086, 1093>>,                              \* "плох"
      <<1053, 1077, 1085, 1072, 1074, 1080, 1078, 1091>> }     \* "Ненавижу"

RECURSIVE Concats(_)
Concats(n) ==
    IF n = 0 THEN { <<>> }
    ELSE LET shorter == Concats(n - 1)
         IN  shorter \cup { b \o f : b \in shorter, f \in Fragments }

\* Bodies around the length limit.
LongBodies ==
    { Repeat(97, MAX_REVIEW_LENGTH + 1),                       \* "a" * (MAX + 1)
      Repeat(97, MAX_REVIEW_LENGTH) \o <<10>>,                 \* "a" * MAX + "\n"
      Repeat(97, MAX_REVIEW_LENGTH - 1) \o <<38>> }            \* "a" * (MAX - 1) + "&"

\* The empty body and a blank one.
BlankBodies == { <<>>, <<32, 32, 10>> }

\* Request bodies sent to POST /reviews in SpecText.
TextBodies == Concats(MaxFrags) \cup BlankBodies \cup LongBodies

Sentiments == {"positive", "negative", "neutral"}

\* ------------------------------------------------------------------- state

VARIABLES
    poolClass,  \* the engine's pool: "QueuePool" (SQLAlchemy 2.x) or "NullPool" (1.4)
    pool,       \* idle pooled connections, oldest first; a connection is its
                \* last_insert_rowid()
    store,      \* committed rows of table reviews, in rowid order
    origin,     \* history: origin[i] is the request whose INSERT wrote store[i]
    lock,       \* the request holding SQLite's write lock, 0 when free
    req,        \* the POST requests received so far: input, position in
                \* the handler, response
    gets,       \* the GET requests in flight, a bag: input, position, connection
    listed,     \* the GET response produced in the last step (input and
                \* response), NoList after any other step
    clock       \* the server's UTC clock, in ticks

vars == <<poolClass, pool, store, origin, lock, req, gets, listed, clock>>

Reqs == DOMAIN req

NoReview == [id |-> -1, text |-> <<>>, sentiment |-> "", created_at |-> -1]

\* A POST request.  conn is the connection its session holds (-1: none).
NewReq ==
    [pc |-> "new", body |-> <<>>, clear_text |-> <<>>, sentiment |-> "",
     created_at |-> -1, rowid |-> 0, conn |-> -1, status |-> 0, detail |-> "",
     review |-> NoReview]

\* The response of a GET request.  seen is history: the POST requests
\* answered 201, in flight and answered 500 when its SELECT ran.
NoList ==
    [query |-> <<>>, status |-> 0, detail |-> "", reviews |-> <<>>,
     seen |-> [created |-> {}, running |-> {}, failed |-> {}]]

\* ---------------------------------------------------------------- storage

\* The rowid SQLite gives a new row of an INTEGER PRIMARY KEY table
\* (line 44): one more than the largest rowid in the table.
NextRowid(rows) == IF rows = <<>> THEN 1 ELSE rows[Len(rows)].id + 1

\* INSERT with the row written over the newest one.
InsertRow_mutReplace(rows, row) ==
    IF rows = <<>> THEN <<row>> ELSE [rows EXCEPT ![Len(rows)] = row]

\* INSERT INTO reviews, lines 137-140: one more row.
InsertRow(rows, row) == Append(rows, row)

\* A session takes a connection at its first execute, get_db lines 58-61:
\* QueuePool hands out the oldest idle connection and opens a new one when
\* none is idle; NullPool always opens a new one.  A new connection has
\* last_insert_rowid() = 0.
Checkout(class, idle) ==
    IF class = "QueuePool" /\ idle # <<>>
    THEN [conn |-> Head(idle), idle |-> Tail(idle)]
    ELSE [conn |-> 0, idle |-> idle]

\* A session gives its connection back at commit, rollback and close:
\* QueuePool keeps it idle, NullPool closes it.
Release(class, idle, conn) ==
    IF class = "QueuePool" THEN Append(idle, conn) ELSE idle

\* ReviewResponse, lines 52-56.
ReviewResponse(id, text, sentiment, created_at) ==
    [id |-> id, text |-> text, sentiment |-> sentiment, created_at |-> created_at]

RECURSIVE SelectWhere(_, _)
SelectWhere(rows, sentiment) ==
    IF rows = <<>> THEN <<>>
    ELSE IF Head(rows).sentiment = sentiment
         THEN <<Head(rows)>> \o SelectWhere(Tail(rows), sentiment)
         ELSE SelectWhere(Tail(rows), sentiment)

\* list_reviews with the WHERE clause dropped.
list_reviews_mutNoWhere(rows, sentiment) ==
    [i \in 1..Len(rows) |->
        ReviewResponse(rows[i].id, rows[i].text, rows[i].sentiment, rows[i].created_at)]

\* list_reviews with the test of line 164 inverted.
list_reviews_mutInverted(rows, sentiment) ==
    LET result == IF sentiment = <<>>
                  THEN SelectWhere(rows, "")
                  ELSE rows
    IN  [i \in 1..Len(result) |->
            ReviewResponse(result[i].id, result[i].text,
                           result[i].sentiment, result[i].created_at)]

\* list_reviews, lines 164-185: the rows of a table scan (rowid order), all
\* of them or those WHERE sentiment = :sentiment, each as a ReviewResponse.
list_reviews(rows, sentiment) ==
    LET result == IF sentiment # <<>>
                  THEN SelectWhere(rows, sentiment[1])
                  ELSE rows
    IN  [i \in 1..Len(result) |->
            ReviewResponse(result[i].id, result[i].text,
                           result[i].sentiment, result[i].created_at)]

\* Query(pattern="^(positive|negative|neutral)$"), lines 158-160.
QueryOk(sentiment) == sentiment = <<>> \/ sentiment[1] \in Sentiments

\* ----------------------------------------------------------------- actions

Init ==
    /\ poolClass \in {"QueuePool", "NullPool"}
    /\ pool = <<>>
    /\ store = <<>>
    /\ origin = <<>>
    /\ lock = 0
    /\ req = <<>>
    /\ listed = NoList
    /\ gets = EmptyBag
    /\ clock = 0

\* POST /reviews arrives: body validation (422 through
\* validation_exception_handler, lines 106-111), then create_review up to
\* its first await: lines 133-135 and the connection checkout of the
\* execute of line 141.  created_at is the clock's reading,
\* datetime.now(timezone.utc); the clock has advanced since the request
\* before.
PostReviews(body) ==
    LET v == ReviewPOSTRequest(body)
    IN  /\ IF ~v.ok
           THEN /\ req' = Append(req,
                     [NewReq EXCEPT !.pc = "done",
                                    !.body = body, !.status = 422,
                                    !.detail = "Invalid request body"])
                /\ UNCHANGED <<clock, pool>>
           ELSE LET clear_text == sanitize_html(v.text)
                    created_at == clock + 1
                    co == Checkout(poolClass, pool)
                IN  /\ clock' = created_at
                    /\ pool' = co.idle
                    /\ req' = Append(req,
                         [NewReq EXCEPT !.pc = "insert",
                                        !.body = body,
                                        !.clear_text = clear_text,
                                        !.sentiment = check_sentiment(clear_text),
                                        !.created_at = created_at,
                                        !.conn = co.conn])
        /\ listed' = NoList
        /\ UNCHANGED <<poolClass, store, origin, lock, gets>>

\* The INSERT of lines 137-145 executes: it takes SQLite's write lock and a
\* rowid, which becomes the connection's last_insert_rowid().
create_review_insert(r) ==
    /\ req[r].pc = "insert"
    /\ lock = 0
    /\ lock' = r
    /\ req' = [req EXCEPT ![r] =
         [@ EXCEPT !.pc = "commit", !.rowid = NextRowid(store),
                   !.conn = NextRowid(store)]]
    /\ listed' = NoList
    /\ UNCHANGED <<poolClass, pool, store, origin, gets, clock>>

\* create_review without the commit of line 146.
create_review_commit_mutNoCommit(r) ==
    /\ req[r].pc = "commit"
    /\ lock' = 0
    /\ req' = [req EXCEPT ![r] = [@ EXCEPT !.pc = "last_id"]]
    /\ listed' = NoList
    /\ UNCHANGED <<poolClass, pool, store, origin, gets, clock>>

\* await db.commit(), line 146: the row becomes durable and visible and the
\* lock is freed.  The session gives its connection back, and the execute of
\* line 147 checks one out before anything else runs.
create_review_commit(r) ==
    /\ req[r].pc = "commit"
    /\ store' = InsertRow(store, [id |-> req[r].rowid, text |-> req[r].clear_text,
                                  sentiment |-> req[r].sentiment,
                                  created_at |-> req[r].created_at])
    /\ origin' = Append(origin, r)
    /\ lock' = 0
    /\ LET co == Checkout(poolClass, Release(poolClass, pool, req[r].conn))
       IN  /\ pool' = co.idle
           /\ req' = [req EXCEPT ![r] = [@ EXCEPT !.pc = "last_id", !.conn = co.conn]]
    /\ listed' = NoList
    /\ UNCHANGED <<poolClass, gets, clock>>

\* SELECT last_insert_rowid() executes, lines 147-148, on the connection the
\* session holds now; lines 150-154 build the 201 response.  The session is
\* still open.
create_review_last_id(r) ==
    /\ req[r].pc = "last_id"
    /\ req' = [req EXCEPT ![r] =
         [@ EXCEPT !.pc = "close", !.status = 201,
                   !.review = ReviewResponse(req[r].conn, req[r].clear_text,
                                             req[r].sentiment, req[r].created_at)]]
    /\ listed' = NoList
    /\ UNCHANGED <<poolClass, pool, store, origin, lock, gets, clock>>

\* The awaited statement of POST request r (line 141, 146 or 147) raises
\* SQLAlchemyError.  The exception leaves the handler; the session is still
\* open and nothing is answered yet.
create_review_raise(r) ==
    /\ req[r].pc \in {"insert", "commit", "last_id"}
    /\ req' = [req EXCEPT ![r] = [@ EXCEPT !.pc = "raised"]]
    /\ listed' = NoList
    /\ UNCHANGED <<poolClass, pool, store, origin, lock, gets, clock>>

\* get_db, lines 58-61, leaves its "async with" after the handler of POST
\* request r has returned: the session is closed and the connection is given
\* back.
get_db_exit(r) ==
    /\ req[r].pc = "close"
    /\ pool' = Release(poolClass, pool, req[r].conn)
    /\ req' = [req EXCEPT ![r] = [@ EXCEPT !.pc = "done", !.conn = -1]]
    /\ listed' = NoList
    /\ UNCHANGED <<poolClass, store, origin, lock, gets, clock>>

\* The exception of POST request r reaches db_exception_handler, lines
\* 101-104.  On its way get_db's "async with" (lines 58-61) closes the
\* session: what is not committed is rolled back (the write lock is freed)
\* and the connection is given back; the handler then runs with nothing
\* awaited in between and the answer is 500.
db_exception_handler(r) ==
    /\ req[r].pc = "raised"
    /\ pool' = Release(poolClass, pool, req[r].conn)
    /\ lock' = IF lock = r THEN 0 ELSE lock
    /\ req' = [req EXCEPT ![r] =
         [@ EXCEPT !.pc = "done", !.conn = -1, !.status = 500,
                   !.detail = "Internal database error"]]
    /\ listed' = NoList
    /\ UNCHANGED <<poolClass, store, origin, gets, clock>>

\* GET /reviews arrives: the query parameter is validated (422), then
\* list_reviews runs up to its first await: the execute of line 170 or 176
\* checks a connection out.
GetReviews(q) ==
    /\ IF ~QueryOk(q)
       THEN /\ listed' = [NoList EXCEPT !.query = q, !.status = 422,
                                        !.detail = "Invalid request body"]
            /\ UNCHANGED <<pool, gets>>
       ELSE LET co == Checkout(poolClass, pool)
            IN  /\ pool' = co.idle
                /\ gets' = gets (+) SetToBag({[pc |-> "select", query |-> q,
                                                conn |-> co.conn]})
                /\ listed' = NoList
    /\ UNCHANGED <<poolClass, store, origin, lock, req, clock>>

\* The SELECT of GET request g executes over the committed rows, lines
\* 164-185, and the answer is 200; or it raises SQLAlchemyError and nothing
\* is answered yet.  The session is still open.
list_reviews_select(g) ==
    /\ g.pc = "select"
    /\ \/ /\ gets' = (gets (-) SetToBag({g}))
                         (+) SetToBag({[g EXCEPT !.pc = "close"]})
          /\ listed' =
               [NoList EXCEPT
                  !.query = g.query, !.status = 200,
                  !.reviews = list_reviews(store, g.query),
                  !.seen = [created |-> {c \in Reqs : req[c].status = 201},
                            running |-> {c \in Reqs : req[c].pc # "done"},
                            failed  |-> {c \in Reqs : req[c].status = 500}]]
       \/ /\ gets' = (gets (-) SetToBag({g}))
                         (+) SetToBag({[g EXCEPT !.pc = "raised"]})
          /\ listed' = NoList
    /\ UNCHANGED <<poolClass, pool, store, origin, lock, req, clock>>

\* get_db, lines 58-61, leaves its "async with" after the handler of GET
\* request g has returned: the connection is given back.
get_db_exit_list(g) ==
    /\ g.pc = "close"
    /\ pool' = Release(poolClass, pool, g.conn)
    /\ gets' = gets (-) SetToBag({g})
    /\ listed' = NoList
    /\ UNCHANGED <<poolClass, store, origin, lock, req, clock>>

\* The exception of GET request g reaches db_exception_handler, lines
\* 101-104.  On its way get_db's "async with" (lines 58-61) closes the
\* session and the connection is given back; the handler then runs with
\* nothing awaited in between and the answer is 500.
db_exception_handler_list(g) ==
    /\ g.pc = "raised"
    /\ pool' = Release(poolClass, pool, g.conn)
    /\ gets' = gets (-) SetToBag({g})
    /\ listed' = [NoList EXCEPT !.query = g.query, !.status = 500,
                                !.detail = "Internal database error"]
    /\ UNCHANGED <<poolClass, store, origin, lock, req, clock>>

\* Up to MaxReq POST requests over a few bodies, running concurrently with
\* each other and with up to MaxGet GET requests at a time.
Next ==
    \/ Len(req) < MaxReq /\ \E body \in Bodies : PostReviews(body)
    \/ \E r \in Reqs : create_review_insert(r)
    \/ \E r \in Reqs : create_review_commit(r)
    \/ \E r \in Reqs : create_review_last_id(r)
    \/ \E r \in Reqs : create_review_raise(r)
    \/ \E r \in Reqs : get_db_exit(r)
    \/ \E r \in Reqs : db_exception_handler(r)
    \/ BagCardinality(gets) < MaxGet /\ \E q \in Queries : GetReviews(q)
    \/ \E g \in BagToSet(gets) : list_reviews_select(g)
    \/ \E g \in BagToSet(gets) : get_db_exit_list(g)
    \/ \E g \in BagToSet(gets) : db_exception_handler_list(g)

Spec == Init /\ [][Next]_vars

\* The same requests against an engine without a pool (NullPool).  Table,
\* lock, responses and the steps enabled do not depend on the pool class:
\* only the connection a session holds, and so the id of a 201 response, do.
InitNullPool == Init /\ poolClass = "NullPool"

SpecNullPool == InitNullPool /\ [][Next]_vars

\* One POST /reviews over a wide set of bodies, then, once it is answered
\* and its session closed, one more with an empty or blank body.
NextText ==
    \/ req = <<>> /\ \E body \in TextBodies : PostReviews(body)
    \/ /\ Len(req) = 1 /\ req[1].pc = "done"
       /\ \E body \in BlankBodies : PostReviews(body)
    \/ \E r \in Reqs : create_review_insert(r)
    \/ \E r \in Reqs : create_review_commit(r)
    \/ \E r \in Reqs : create_review_last_id(r)
    \/ \E r \in Reqs : create_review_raise(r)
    \/ \E r \in Reqs : get_db_exit(r)
    \/ \E r \in Reqs : db_exception_handler(r)

SpecText == Init /\ [][NextText]_vars

\* ------------------------------------------------------------------ claims

Range(f) == {f[i] : i \in DOMAIN f}

\* The POST requests answered 201.
Created == {r \in Reqs : req[r].status = 201}

\* The rows of the table written by request r.
RowsBy(r) == {i \in DOMAIN store : origin[i] = r}

\* The rows of the table whose sentiment is f.
RowsWith(f) == {store[i] : i \in {k \in DOMAIN store : store[k].sentiment = f}}

\* C1: the ids returned by two POST requests answered 201 differ, and the id
\* a request returns is never the rowid of a row another request inserted.
C1_DistinctIds ==
    \A a \in Created : \A b \in Reqs \ {a} :
        /\ b \in Created => req[a].review.id # req[b].review.id
        /\ RowsBy(b) # {} => req[a].review.id # req[b].rowid

\* C2: the response of a POST request answered 201 is a row of the table:
\* id, text, sentiment and created_at are those of one stored record.
C2_ResponseIsStored ==
    \A r \in Created : \E i \in DOMAIN store : store[i] = req[r].review

\* C3: the text of every stored record is non-empty and at most
\* MAX_REVIEW_LENGTH characters long.
C3_StoredTextBounded ==
    \A i \in DOMAIN store :
        Len(store[i].text) >= 1 /\ Len(store[i].text) <= MAX_REVIEW_LENGTH

\* C4: a GET request without filter whose SELECT runs when every POST
\* request so far was answered 201 and has ended (N of them) returns exactly
\* N records, in ascending id order, one for each of these POST requests.
C4_ListAfterCreates ==
    (/\ listed.status = 200 /\ listed.query = <<>>
     /\ listed.seen.running = {} /\ listed.seen.failed = {})
    => LET out == listed.reviews
           done == listed.seen.created
       IN  /\ Len(out) = Cardinality(done)
           /\ \A i \in 1..(Len(out) - 1) : out[i].id < out[i + 1].id
           /\ \A c \in done :
                Cardinality({i \in DOMAIN out :
                               /\ out[i].text = req[c].review.text
                               /\ out[i].sentiment = req[c].review.sentiment
                               /\ out[i].created_at = req[c].review.created_at}) = 1

\* Two POST requests were answered 201, nothing else is running or failed,
\* and a GET request without filter has just returned.
C4_Witness ==
    /\ listed.status = 200 /\ listed.query = <<>>
    /\ listed.seen.running = {} /\ listed.seen.failed = {}
    /\ Cardinality(listed.seen.created) >= 2
    /\ Len(listed.reviews) >= 2

\* The text is empty or blank, or longer than MAX_REVIEW_LENGTH once its
\* leading and trailing whitespace is removed.
InvalidText(body) ==
    \/ \A i \in 1..Len(body) : IsSpace(body[i])
    \/ \E i \in 1..(Len(body) - MAX_REVIEW_LENGTH) :
         \E j \in (i + MAX_REVIEW_LENGTH)..Len(body) :
            ~IsSpace(body[i]) /\ ~IsSpace(body[j])

\* C5: a POST request whose text is empty, blank or too long (after
\* trimming) is answered 422 at once; the step that answers it leaves the
\* table and the pool as they were, and the request never takes a rowid or
\* writes a row.
C5_InvalidRejected ==
    [][\A r \in DOMAIN req' :
          InvalidText(req'[r].body) =>
             /\ req'[r].status = 422 /\ req'[r].pc = "done"
             /\ req'[r].detail = "Invalid request body"
             /\ req'[r].rowid = 0
             /\ \A i \in DOMAIN store' : origin'[i] # r
             /\ r \notin DOMAIN req => store' = store /\ pool' = pool]_vars

\* A row is stored and a later POST request with a blank text was rejected.
C5_Witness ==
    /\ store # <<>>
    /\ \E r \in Reqs : /\ req[r].status = 422
                       /\ InvalidText(req[r].body)
                       /\ \E c \in Reqs : c < r /\ RowsBy(c) # {}

\* C6: whatever the state of the table when a GET request is answered 200,
\* the list for filter f over this table is exactly the rows whose sentiment
\* is f, the three filtered lists are pairwise disjoint and their union is
\* the unfiltered list; the GET request itself, when it has filter f,
\* returned the rows whose sentiment is f.
C6_FilterPartition ==
    listed.status = 200 =>
        LET L   == [f \in Sentiments |-> Range(list_reviews(store, <<f>>))]
            all == Range(list_reviews(store, <<>>))
        IN  /\ \A f \in Sentiments : L[f] = RowsWith(f)
            /\ \A f, g \in Sentiments : f # g => L[f] \cap L[g] = {}
            /\ UNION {L[f] : f \in Sentiments} = all
            /\ all = Range(store)
            /\ listed.query # <<>>
                  => Range(listed.reviews) = RowsWith(listed.query[1])

\* The table holds rows of two sentiments and a GET request with a filter
\* has just returned some of the rows, not all.
C6_Witness ==
    /\ listed.status = 200 /\ listed.query = <<"positive">>
    /\ listed.reviews # <<>>
    /\ Len(listed.reviews) < Len(store)

\* C7: no step changes or removes a stored record or adds more than one; a
\* GET request (answered 200, 422 or 500) leaves the table unchanged; when a
\* POST request is answered 201 the table holds exactly one row it wrote.
C7_Frame ==
    [][/\ Len(store') >= Len(store) /\ Len(store') <= Len(store) + 1
       /\ \A i \in DOMAIN store : store'[i] = store[i]
       /\ listed' # NoList => store' = store
       /\ \A r \in Reqs :
            (req[r].status # 201 /\ req'[r].status = 201)
               => Cardinality({i \in DOMAIN store' : origin'[i] = r}) = 1]_vars

\* Two rows are stored, a POST request was answered 201 and a GET request
\* has just returned.
C7_Witness ==
    /\ Len(store) >= 2
    /\ Created # {}
    /\ listed.status = 200

\* C8: a GET request whose SELECT runs after a POST request was answered
\* 201 (so every GET request that arrives after that answer) returns the
\* record this POST request wrote, whenever the record matches the filter.
C8_ListIncludesCreated ==
    listed.status = 200 =>
       \A c \in listed.seen.created :
          \E i \in RowsBy(c) :
             (listed.query = <<>> \/ store[i].sentiment = listed.query[1])
                => store[i] \in Range(listed.reviews)

\* A GET request with a filter has just returned the record of a POST
\* request answered 201 before, while another POST request was running.
C8_Witness ==
    /\ listed.status = 200 /\ listed.query = <<"positive">>
    /\ listed.seen.running # {}
    /\ \E c \in listed.seen.created :
          \E i \in RowsBy(c) : store[i] \in Range(listed.reviews)

\* Some pattern of the list matches the lower-cased text.
AnyMatch(patterns, text) ==
    \E k \in DOMAIN patterns : re_search(patterns[k], Lower(text))

\* C9: the sentiment of every accepted text is positive when a positive
\* pattern matches its lower-cased form (also when a negative one matches
\* too), negative when no positive and some negative pattern matches, and
\* neutral when no pattern matches.
C9_PositivePrecedence ==
    \A r \in Reqs :
       req[r].status # 422 =>
          LET pos == AnyMatch(positive_patterns, req[r].clear_text)
              neg == AnyMatch(negative_patterns, req[r].clear_text)
          IN  /\ req[r].sentiment \in Sentiments
              /\ pos => req[r].sentiment = "positive"
              /\ (~pos /\ neg) => req[r].sentiment = "negative"
              /\ (~pos /\ ~neg) => req[r].sentiment = "neutral"

\* A text that matches a positive and a negative pattern was classified.
C9_Witness ==
    \E r \in Reqs :
       /\ req[r].status # 422
       /\ AnyMatch(positive_patterns, req[r].clear_text)
       /\ AnyMatch(negative_patterns, req[r].clear_text)
       /\ req[r].sentiment = "positive"

\* C10: a POST request answered 500 has written no row.
C10_ErrorMeansNoWrite ==
    \A r \in Reqs : req[r].status = 500 => RowsBy(r) = {}

====
